---- MODULE Spec2Model ----
(***************************************************************************)
(* Noise monitor: the GUI monitor (noise_monitor_gui.py, a timer on the UI *)
(* thread that starts one record_audio worker thread per cycle) and the    *)
(* CLI monitor (noise_monitor.py, one blocking loop).  Both share the      *)
(* wall clock, read here as the variable now.                              *)
(***************************************************************************)
EXTENDS Integers, Sequences, FiniteSets, TLC

\* ------------------------------------------------------------------ bounds
\* Value of time.time() when the program starts (any value far above the cooldown).
EpochStart == 600
\* Last clock value the model explores.
MaxTime == 1200
\* Sub-chunks per recorded block in the model (the program records 100).
NumChunks == 2
\* Thread objects that can exist at once.
MaxWorkers == 2
\* Sub-chunks per block when the alert decision is explored on its own.
PolicyChunks == 4

\* --------------------------------------------------------- program constants
DEFAULT_THRESHOLD == 30
DEFAULT_SPIKE_DURATION == 500
CHUNK_MS == 100
ALERT_COOLDOWN == 600
SPL_OFFSET == 90
NegInf == -1000
NOISE_NORMAL == 0
NOISE_HIGH == 1
threshold_db == 30
alert_interval == 600

\* ------------------------------------------------------------- environment
\* Amounts by which the wall clock moves between two observations.
ClockSteps == {300}
\* Sub-chunk levels in dBFS delivered by the device; NegInf stands for rms = 0.
GuiChunkInputs == {NegInf, -70, -55}
\* Block levels in dBFS delivered to the CLI loop.
MicBlockInputs == {NegInf, -70, -60, -55}
\* Python's None and a present value.
None == <<>>
Some(x) == <<x>>
Slots == 1..MaxWorkers

\* Settings records the settings dialog can store (QSettings content).
SettingsInputs ==
    { [threshold |-> 30, filter_micro_lags |-> TRUE,  spike_duration_ms |-> 200,
       telegram_token |-> "tok", telegram_chat_id |-> "chat", audio_device |-> "mic"],
      [threshold |-> 40, filter_micro_lags |-> FALSE, spike_duration_ms |-> 200,
       telegram_token |-> "tok", telegram_chat_id |-> "chat", audio_device |-> "mic"],
      [threshold |-> 30, filter_micro_lags |-> TRUE,  spike_duration_ms |-> 100,
       telegram_token |-> "",    telegram_chat_id |-> "chat", audio_device |-> "usb"] }

\* What sd.query_devices() and sd.default.device[0] can return.
DeviceEnvs ==
    { [devices |-> <<>>, default |-> None],
      [devices |-> << [name |-> "mic", max_input_channels |-> 1] >>, default |-> Some(0)],
      [devices |-> << [name |-> "out", max_input_channels |-> 0] >>, default |-> None] }

VARIABLES
    now,               \* time.time()
    \* ---- GUI monitor (NoiseMonitorWindow)
    settings,          \* settings_manager content
    is_monitoring,     \* self.is_monitoring
    last_alert_time,   \* self.last_alert_time
    recording_thread,  \* self.recording_thread: None or Some(slot)
    device_id,         \* self.device_id: None or Some(index)
    status_label,      \* text of self.status_label
    threads,           \* the Thread objects: slot -> locals of record_audio
    disk,              \* alert files of the GUI on disk
    alert_log,         \* cycle times (current_time) of the calls of send_alert
    posts,             \* network calls of the send_alert in progress
    last_tick,         \* what the last update_noise_level call saw and did
    \* ---- CLI monitor (monitor_usb_mic)
    mic_pc,            \* position in the loop of monitor_usb_mic
    noise_state,       \* noise_state
    mic_last_alert_time, \* last_alert_time
    mic_current_time,  \* current_time
    db_spl,            \* db_spl
    mic_stamp,         \* timestamp in audio_file_path
    mic_disk,          \* alert files of the CLI on disk
    mic_posts,         \* network calls answered in the current cycle
    transitions,       \* the Normal->High and High->Normal transitions made so far
    suppressed,        \* a loud block was suppressed by the cooldown since the last alert
    scen,              \* progress through "alert, loud block in cooldown, loud block after it"
    attach_failed,     \* cycle time of the last alert whose attachment step failed
    text_resent,       \* an alert text was sent again in the cooldown of such an alert
    \* ---- the alert decision of record_audio on one block, on its own
    pol                \* the block, the settings and the locals of the decision

gui_vars == <<settings, is_monitoring, last_alert_time, recording_thread, device_id,
              status_label, threads, disk, alert_log, posts, last_tick>>
cli_vars == <<mic_pc, noise_state, mic_last_alert_time, mic_current_time, db_spl,
              mic_stamp, mic_disk, mic_posts, transitions, suppressed, scen,
              attach_failed, text_resent>>
vars == <<now, gui_vars, cli_vars, pol>>

\* ------------------------------------------------------------ pure helpers
RECURSIVE SeqMax(_)
SeqMax(s) == IF Len(s) = 1 THEN s[1]
             ELSE LET m == SeqMax(Tail(s)) IN IF s[1] > m THEN s[1] ELSE m

\* Blocks of NumChunks sub-chunk levels the device can deliver.
BlockInputs == [1..NumChunks -> GuiChunkInputs]

\* record_audio: db_levels holds 20*log10(rms) + 90 of every chunk with rms > 0.
RECURSIVE DbLevels(_)
DbLevels(block) ==
    IF block = <<>> THEN <<>>
    ELSE IF Head(block) = NegInf THEN DbLevels(Tail(block))
         ELSE <<Head(block) + SPL_OFFSET>> \o DbLevels(Tail(block))

\* int(spike_duration_ms / (CHUNK_DURATION * 1000))
RequiredChunks(spike_duration_ms) == spike_duration_ms \div CHUNK_MS

\* sum(1 for db in db_levels if db > threshold)
HighChunks(db_levels, threshold) ==
    Cardinality({i \in DOMAIN db_levels : db_levels[i] > threshold})

\* Mutant: the count must exceed the required number of chunks.
ShouldAlertFiltered_Strict(db_levels, threshold, spike_duration_ms) ==
    HighChunks(db_levels, threshold) > RequiredChunks(spike_duration_ms)

\* Mutant: the filter asks for one run of consecutive chunks of the required length.
ShouldAlertFiltered_Consecutive(db_levels, threshold, spike_duration_ms) ==
    \E i \in DOMAIN db_levels :
        /\ i + RequiredChunks(spike_duration_ms) - 1 <= Len(db_levels)
        /\ \A j \in i..(i + RequiredChunks(spike_duration_ms) - 1) : db_levels[j] > threshold

\* should_alert = high_chunks >= required_chunks
ShouldAlertFiltered(db_levels, threshold, spike_duration_ms) ==
    HighChunks(db_levels, threshold) >= RequiredChunks(spike_duration_ms)

ShouldAlertImmediate(db_levels, threshold) == SeqMax(db_levels) > threshold

\* Mutant: an empty list of levels is taken for a measurement.
HasLevels_Always(db_levels) == TRUE

\* if db_levels:
HasLevels(db_levels) == db_levels # <<>>

\* The decision is not being computed.
PolIdle == [pc |-> "off", block |-> <<>>, threshold |-> 0, filter |-> FALSE, spike |-> 0,
            db_levels |-> <<>>, nan |-> FALSE, required |-> 0, should_alert |-> FALSE]

\* Mutant: the cooldown constant is dropped from the comparison.
CooldownElapsed_NoWait(current_time, last) == (current_time - last) >= 0

\* (current_time - self.last_alert_time) >= ALERT_COOLDOWN
CooldownElapsed(current_time, last) == (current_time - last) >= ALERT_COOLDOWN

\* setup_audio: the configured input device by name, else the default device.
setup_audio(name, env) ==
    LET found == {i \in DOMAIN env.devices :
                     /\ env.devices[i].max_input_channels > 0
                     /\ env.devices[i].name = name}
    IN  IF found # {}
        THEN Some((CHOOSE i \in found : \A j \in found : i <= j) - 1)
        ELSE IF env.devices # <<>> THEN env.default ELSE None

\* ----------------------------------------------------- GUI: thread objects
DeadThread ==
    [pc |-> "dead", outcome |-> "none", db_levels |-> <<>>, threshold |-> 0,
     current_time |-> 0, should_alert |-> FALSE, stamp |-> 0, msg_threshold |-> 0]

\* Thread.is_alive()
IsAlive(slot) == threads[slot].pc # "dead"

\* Mutant: the liveness test of the previous thread is missing.
ThreadIdle_Always(rt) == TRUE

\* Mutant: only the "no thread yet" half of the test is made.
ThreadIdle_NoneOnly(rt) == rt = None

\* self.recording_thread is None or not self.recording_thread.is_alive()
ThreadIdle(rt) == rt = None \/ ~IsAlive(rt[1])

\* record_audio returns (or its exception handler ends): the thread dies.
Die(slot, how) == [threads EXCEPT ![slot] = [DeadThread EXCEPT !.outcome = how]]

\* Steps of record_audio inside send_alert.
DispatchPcs == {"write_files", "read_creds", "post_text", "post_audio", "remove", "commit"}

\* What the thread object self.recording_thread is doing: "none" (no thread yet),
\* "failed" / "finished" (dead, by the except clause or by returning),
\* "measuring" (recording and level analysis) or "dispatching" (inside send_alert).
Phase(rt) ==
    IF rt = None THEN "none"
    ELSE LET t == threads[rt[1]]
         IN  IF t.pc = "dead"
             THEN (IF t.outcome = "rec_error" THEN "failed" ELSE "finished")
             ELSE IF t.pc \in DispatchPcs THEN "dispatching" ELSE "measuring"

GuiInit ==
    /\ settings \in SettingsInputs
    /\ is_monitoring = TRUE
    /\ last_alert_time = 0
    /\ recording_thread = None
    /\ \E env \in DeviceEnvs : device_id = setup_audio(settings.audio_device, env)
    /\ status_label = "Monitoring..."
    /\ threads = [s \in Slots |-> DeadThread]
    /\ disk = {}
    /\ alert_log = <<>>
    /\ posts = <<>>
    /\ last_tick = [enabled |-> FALSE, phase |-> "none", started |-> FALSE]

\* ------------------------------------------------------------ UI thread
\* Mutant: the tick does not look at is_monitoring.
TickEnabled_IgnorePause(monitoring, dev) == dev # None

\* not (not self.is_monitoring or self.device_id is None)
TickEnabled(monitoring, dev) == monitoring /\ dev # None

\* QTimer timeout: update_noise_level.
update_noise_level ==
    LET enabled == TickEnabled(is_monitoring, device_id)
        free    == {s \in Slots : ~IsAlive(s)}
        start   == enabled /\ ThreadIdle(recording_thread)
    IN  /\ start => free # {}
        /\ last_tick' = [enabled |-> enabled,
                         phase   |-> Phase(recording_thread),
                         started |-> start]
        /\ IF start
           THEN LET s == CHOOSE x \in free : \A y \in free : x <= y
                IN  /\ threads' = [threads EXCEPT ![s] = [DeadThread EXCEPT !.pc = "rec"]]
                    /\ recording_thread' = Some(s)
           ELSE UNCHANGED <<threads, recording_thread>>
        /\ UNCHANGED <<pol, cli_vars, now, settings, is_monitoring, last_alert_time, device_id,
                       status_label, disk, alert_log, posts>>

toggle_monitoring ==
    /\ is_monitoring' = ~is_monitoring
    /\ status_label' = IF ~is_monitoring' THEN "Paused" ELSE "Monitoring..."
    /\ UNCHANGED <<pol, cli_vars, now, settings, last_alert_time, recording_thread, device_id,
                   threads, disk, alert_log, posts, last_tick>>

\* show_settings with the dialog accepted: save_settings, then setup_audio.
show_settings ==
    \E s \in SettingsInputs, env \in DeviceEnvs :
        /\ settings' = s
        /\ device_id' = setup_audio(s.audio_device, env)
        /\ UNCHANGED <<pol, cli_vars, now, is_monitoring, last_alert_time, recording_thread,
                       status_label, threads, disk, alert_log, posts, last_tick>>

\* ------------------------------------------------- worker: record_audio
\* sd.rec(..., blocking=True) and the level computation of the block.
rec_block(slot) ==
    /\ threads[slot].pc = "rec"
    /\ \/ \E block \in BlockInputs :
             LET lv == DbLevels(block)
             IN  IF ~HasLevels(lv)
                 THEN threads' = Die(slot, "done") /\ UNCHANGED status_label
                 ELSE IF lv = <<>>
                      \* np.max of an empty list raises ValueError
                      THEN threads' = Die(slot, "rec_error") /\ status_label' = "Error"
                      ELSE /\ threads' = [threads EXCEPT ![slot].pc = "read_threshold",
                                                         ![slot].db_levels = lv]
                           /\ UNCHANGED status_label
       \/ /\ threads' = Die(slot, "rec_error")
          /\ status_label' = "Error"
    /\ UNCHANGED <<pol, cli_vars, now, settings, is_monitoring, last_alert_time, recording_thread,
                   device_id, disk, alert_log, posts, last_tick>>

\* threshold = settings.get("threshold"); current_time = time.time()
read_threshold(slot) ==
    /\ threads[slot].pc = "read_threshold"
    /\ threads' = [threads EXCEPT ![slot].pc = "decide",
                                  ![slot].threshold = settings.threshold,
                                  ![slot].current_time = now]
    /\ UNCHANGED <<pol, cli_vars, now, settings, is_monitoring, last_alert_time, recording_thread,
                   device_id, status_label, disk, alert_log, posts, last_tick>>

\* if settings.get("filter_micro_lags"): ... else: should_alert = max_db > threshold
read_filter(slot) ==
    /\ threads[slot].pc = "decide"
    /\ threads' = IF settings.filter_micro_lags
                  THEN [threads EXCEPT ![slot].pc = "read_spike"]
                  ELSE [threads EXCEPT
                          ![slot].pc = "check",
                          ![slot].should_alert =
                              ShouldAlertImmediate(threads[slot].db_levels,
                                                   threads[slot].threshold)]
    /\ UNCHANGED <<pol, cli_vars, now, settings, is_monitoring, last_alert_time, recording_thread,
                   device_id, status_label, disk, alert_log, posts, last_tick>>

\* spike_duration_ms = settings.get(...); should_alert = high_chunks >= required_chunks
read_spike(slot) ==
    /\ threads[slot].pc = "read_spike"
    /\ threads' = [threads EXCEPT
                     ![slot].pc = "check",
                     ![slot].should_alert =
                         ShouldAlertFiltered(threads[slot].db_levels,
                                             threads[slot].threshold,
                                             settings.spike_duration_ms)]
    /\ UNCHANGED <<pol, cli_vars, now, settings, is_monitoring, last_alert_time, recording_thread,
                   device_id, status_label, disk, alert_log, posts, last_tick>>

\* if should_alert and (current_time - self.last_alert_time) >= ALERT_COOLDOWN:
\*     self.send_alert(...)            (entered here, left at commit_alert)
check_alert(slot) ==
    /\ threads[slot].pc = "check"
    /\ IF /\ threads[slot].should_alert
          /\ CooldownElapsed(threads[slot].current_time, last_alert_time)
       THEN /\ threads' = [threads EXCEPT ![slot].pc = "write_files",
                                          ![slot].db_levels = <<>>,
                                          ![slot].stamp = now]
            /\ alert_log' = Append(alert_log, threads[slot].current_time)
            /\ posts' = <<>>
       ELSE /\ threads' = Die(slot, "done")
            /\ UNCHANGED <<alert_log, posts>>
    /\ UNCHANGED <<pol, cli_vars, now, settings, is_monitoring, last_alert_time, recording_thread,
                   device_id, status_label, disk, last_tick>>

\* The files of one alert, named from its timestamp.
AlertFiles(stamp) == {<<"wav", stamp>>, <<"ogg", stamp>>}

\* send_alert: sf.write(wav_path); sf.read(wav_path); sf.write(ogg_path).
\* A raise leaves what was written so far and goes to the except clause.
write_files(slot) ==
    /\ threads[slot].pc = "write_files"
    /\ \/ /\ disk' = disk \cup AlertFiles(threads[slot].stamp)
          /\ threads' = [threads EXCEPT ![slot].pc = "read_creds"]
          /\ UNCHANGED status_label
       \/ /\ \E written \in {{}, {<<"wav", threads[slot].stamp>>},
                             AlertFiles(threads[slot].stamp)} :
                disk' = disk \cup written
          /\ threads' = [threads EXCEPT ![slot].pc = "commit"]
          /\ status_label' = "Alert Error"
    /\ UNCHANGED <<pol, cli_vars, now, settings, is_monitoring, last_alert_time, recording_thread,
                   device_id, alert_log, posts, last_tick>>

\* token = settings.get("telegram_token"); chat_id = ...; if token and chat_id:
read_creds(slot) ==
    /\ threads[slot].pc = "read_creds"
    /\ threads' = [threads EXCEPT ![slot].pc =
                      IF settings.telegram_token # "" /\ settings.telegram_chat_id # ""
                      THEN "post_text" ELSE "remove"]
    /\ UNCHANGED <<pol, cli_vars, now, settings, is_monitoring, last_alert_time, recording_thread,
                   device_id, status_label, disk, alert_log, posts, last_tick>>

\* The message (with the threshold read again) and requests.post(.../sendMessage).
\* The response status is not looked at; a raise goes to the except clause.
post_text(slot) ==
    /\ threads[slot].pc = "post_text"
    /\ \/ /\ posts' = Append(posts, "sendMessage")
          /\ threads' = [threads EXCEPT ![slot].pc = "post_audio",
                                        ![slot].msg_threshold = settings.threshold]
          /\ UNCHANGED status_label
       \/ /\ threads' = [threads EXCEPT ![slot].pc = "commit",
                                        ![slot].msg_threshold = settings.threshold]
          /\ status_label' = "Alert Error"
          /\ UNCHANGED posts
    /\ UNCHANGED <<pol, cli_vars, now, settings, is_monitoring, last_alert_time, recording_thread,
                   device_id, disk, alert_log, last_tick>>

\* with open(ogg_path, 'rb') as audio: requests.post(.../sendAudio)
post_audio(slot) ==
    /\ threads[slot].pc = "post_audio"
    /\ \/ /\ posts' = Append(posts, "sendAudio")
          /\ threads' = [threads EXCEPT ![slot].pc = "remove"]
          /\ UNCHANGED status_label
       \/ /\ threads' = [threads EXCEPT ![slot].pc = "commit"]
          /\ status_label' = "Alert Error"
          /\ UNCHANGED posts
    /\ UNCHANGED <<pol, cli_vars, now, settings, is_monitoring, last_alert_time, recording_thread,
                   device_id, disk, alert_log, last_tick>>

\* os.remove(wav_path); os.remove(ogg_path)
remove_files(slot) ==
    /\ threads[slot].pc = "remove"
    /\ disk' = disk \ AlertFiles(threads[slot].stamp)
    /\ threads' = [threads EXCEPT ![slot].pc = "commit"]
    /\ UNCHANGED <<pol, cli_vars, now, settings, is_monitoring, last_alert_time, recording_thread,
                   device_id, status_label, alert_log, posts, last_tick>>

\* Mutant: last_alert_time is set only when both calls of the dispatch were made.
commit_alert_OnlyDelivered(slot) ==
    /\ threads[slot].pc = "commit"
    /\ last_alert_time' = IF Len(posts) = 2 THEN threads[slot].current_time
                          ELSE last_alert_time
    /\ threads' = Die(slot, "done")
    /\ posts' = <<>>
    /\ UNCHANGED <<pol, cli_vars, now, settings, is_monitoring, recording_thread, device_id,
                   status_label, disk, alert_log, last_tick>>

\* send_alert has returned: self.last_alert_time = current_time
commit_alert(slot) ==
    /\ threads[slot].pc = "commit"
    /\ last_alert_time' = threads[slot].current_time
    /\ threads' = Die(slot, "done")
    /\ posts' = <<>>
    /\ UNCHANGED <<pol, cli_vars, now, settings, is_monitoring, recording_thread, device_id,
                   status_label, disk, alert_log, last_tick>>

record_audio ==
    \E slot \in Slots :
        \/ rec_block(slot)
        \/ read_threshold(slot)
        \/ read_filter(slot)
        \/ read_spike(slot)
        \/ check_alert(slot)

send_alert ==
    \E slot \in Slots :
        \/ write_files(slot)
        \/ read_creds(slot)
        \/ post_text(slot)
        \/ post_audio(slot)
        \/ remove_files(slot)
        \/ commit_alert(slot)

\* ------------------------------------------------------------------ clock
GuiTick ==
    /\ \E d \in ClockSteps : now + d <= MaxTime /\ now' = now + d
    /\ UNCHANGED <<pol, gui_vars, cli_vars>>

GuiNext ==
    \/ update_noise_level
    \/ toggle_monitoring
    \/ show_settings
    \/ record_audio
    \/ send_alert
    \/ GuiTick

\* The CLI loop is not running.
CliIdle ==
    /\ mic_pc = "off"
    /\ noise_state = NOISE_NORMAL
    /\ mic_last_alert_time = 0
    /\ mic_current_time = 0
    /\ db_spl = NegInf
    /\ mic_stamp = 0
    /\ mic_disk = {}
    /\ mic_posts = <<>>
    /\ transitions = <<>>
    /\ suppressed = FALSE
    /\ scen = [n |-> 0, t1 |-> 0, alerts |-> 0]
    /\ attach_failed = None
    /\ text_resent = FALSE

SpecGUIInit == now = EpochStart /\ GuiInit /\ CliIdle /\ pol = PolIdle

SpecGUI == SpecGUIInit /\ [][GuiNext]_vars

\* ===================================================== CLI: monitor_usb_mic
\* db_spl = noise_level_db + offset; get_noise_level gives -inf for rms = 0
DbSpl(dbfs) == IF dbfs = NegInf THEN NegInf ELSE dbfs + SPL_OFFSET

\* Mutant: the interval is dropped from the comparison.
IntervalElapsed_NoWait(current_time, last) == (current_time - last) >= 0

\* (current_time - last_alert_time) >= alert_interval
IntervalElapsed(current_time, last) == (current_time - last) >= alert_interval

\* if db_spl > threshold_db and (current_time - last_alert_time) >= alert_interval:
AlertBranch(db, current_time, last) ==
    db > threshold_db /\ IntervalElapsed(current_time, last)

\* Mutant: the state test is missing, every loud block after the interval alerts.
MayTrigger_Always(state) == TRUE

\* if noise_state == NOISE_NORMAL:
MayTrigger(state) == state = NOISE_NORMAL

\* Mutant: the recovery branch does not look at the state.
RecoveryBranch_AnyState(db, state) == db <= threshold_db

\* elif db_spl <= threshold_db and noise_state == NOISE_HIGH:
RecoveryBranch(db, state) == db <= threshold_db /\ state = NOISE_HIGH

\* Positions of the loop inside send_telegram_alert(message, audio_file_path).
MicDispatchPcs == {"send_text", "transcode", "send_audio"}

\* The files of one alert: audio_file_path and ogg_file_path.
MicFiles(stamp) == {<<"wav", stamp>>, <<"ogg", stamp>>}

\* Observer of the scenario "a block that alerts (n = 1), a loud block inside the
\* cooldown of that alert (n = 2), a loud block after it has elapsed (n = 3)";
\* alerts counts the Normal->High transitions of these blocks.
ScenOff == [n |-> 0, t1 |-> 0, alerts |-> 0]
ScenStart(triggered, t) == IF triggered THEN [n |-> 1, t1 |-> t, alerts |-> 1] ELSE ScenOff
ScenNext(sc, above, triggered, t) ==
    LET more == sc.alerts + (IF triggered THEN 1 ELSE 0)
    IN  IF ~above THEN ScenOff
        ELSE IF sc.n = 1 /\ t - sc.t1 < alert_interval
             THEN [n |-> 2, t1 |-> sc.t1, alerts |-> more]
        ELSE IF sc.n = 2 /\ t - sc.t1 >= alert_interval
             THEN [n |-> 3, t1 |-> sc.t1, alerts |-> more]
        ELSE ScenStart(triggered, t)

\* The state when the loop is entered (the USB microphone was found).
CliInit ==
    /\ mic_pc = "listen"
    /\ noise_state = NOISE_NORMAL
    /\ mic_last_alert_time = 0
    /\ mic_current_time = 0
    /\ db_spl = NegInf
    /\ mic_stamp = 0
    /\ mic_disk = {}
    /\ mic_posts = <<>>
    /\ transitions = <<>>
    /\ suppressed = FALSE
    /\ scen = ScenOff
    /\ attach_failed = None
    /\ text_resent = FALSE

\* except Exception (line 243): continue, with no change of the alert state.
Continue ==
    /\ mic_pc' = "listen"
    /\ scen' = ScenNext(scen, TRUE, FALSE, mic_current_time)
    /\ UNCHANGED <<noise_state, mic_last_alert_time, transitions, suppressed>>

\* One block: sd.rec, get_noise_level, db_spl, current_time and the branch taken.
listen ==
    /\ mic_pc = "listen"
    /\ \/ \E dbfs \in MicBlockInputs :
             LET db == DbSpl(dbfs)
             IN  /\ db_spl' = db
                 /\ mic_current_time' = now
                 /\ mic_posts' = <<>>
                 /\ suppressed' =
                      (suppressed \/ (/\ db > threshold_db
                                      /\ noise_state = NOISE_NORMAL
                                      /\ ~IntervalElapsed(now, mic_last_alert_time)))
                 /\ IF AlertBranch(db, now, mic_last_alert_time)
                    THEN IF MayTrigger(noise_state)
                         THEN mic_pc' = "record_clip" /\ UNCHANGED scen
                         ELSE mic_pc' = "sleep" /\ scen' = ScenNext(scen, TRUE, FALSE, now)
                    ELSE IF RecoveryBranch(db, noise_state)
                         THEN mic_pc' = "send_recovery" /\ UNCHANGED scen
                         ELSE /\ mic_pc' = "sleep"
                              /\ scen' = ScenNext(scen, db > threshold_db, FALSE, now)
       \/ /\ mic_pc' = "crashed"
          /\ UNCHANGED <<db_spl, mic_current_time, mic_posts, suppressed, scen>>
    /\ UNCHANGED <<pol, gui_vars, now, noise_state, mic_last_alert_time, mic_stamp, mic_disk,
                   transitions, attach_failed, text_resent>>

\* long_recording = sd.rec(...); audio_file_path = ...; sf.write(audio_file_path, ...)
record_clip ==
    /\ mic_pc = "record_clip"
    /\ mic_stamp' = now
    /\ \/ /\ mic_disk' = mic_disk \cup {<<"wav", now>>}
          /\ mic_pc' = "send_text"
          /\ UNCHANGED <<noise_state, mic_last_alert_time, transitions, suppressed, scen>>
       \/ /\ \E written \in {{}, {<<"wav", now>>}} : mic_disk' = mic_disk \cup written
          /\ Continue
    /\ UNCHANGED <<pol, gui_vars, now, mic_current_time, db_spl, mic_posts, attach_failed,
                   text_resent>>

\* Mutant: the text call is left out, the attachment is sent on its own.
send_text_Skipped ==
    /\ mic_pc = "send_text"
    /\ mic_pc' = "transcode"
    /\ UNCHANGED <<pol, gui_vars, now, noise_state, mic_last_alert_time, mic_current_time,
                   db_spl, mic_stamp, mic_disk, mic_posts, transitions, suppressed, scen,
                   attach_failed, text_resent>>

\* send_telegram_alert(message, audio_file_path): requests.post(.../sendMessage)
send_text ==
    /\ mic_pc = "send_text"
    /\ \/ \E status \in {200, 500} :
             /\ mic_posts' = Append(mic_posts, <<"sendMessage", status>>)
             /\ text_resent' =
                  (text_resent \/ (/\ status = 200
                                   /\ attach_failed # None
                                   /\ mic_current_time - attach_failed[1] < alert_interval))
             /\ mic_pc' = "transcode"
             /\ UNCHANGED <<noise_state, mic_last_alert_time, transitions, suppressed, scen>>
       \/ /\ Continue
          /\ UNCHANGED <<mic_posts, text_resent>>
    /\ UNCHANGED <<pol, gui_vars, now, mic_current_time, db_spl, mic_stamp, mic_disk,
                   attach_failed>>

\* data, samplerate = sf.read(audio_file_path); sf.write(ogg_file_path, ...)
transcode ==
    /\ mic_pc = "transcode"
    /\ \/ /\ mic_disk' = mic_disk \cup {<<"ogg", mic_stamp>>}
          /\ mic_pc' = "send_audio"
          /\ UNCHANGED <<noise_state, mic_last_alert_time, transitions, suppressed, scen,
                         attach_failed>>
       \/ /\ \E written \in {{}, {<<"ogg", mic_stamp>>}} : mic_disk' = mic_disk \cup written
          /\ attach_failed' = Some(mic_current_time)
          /\ Continue
    /\ UNCHANGED <<pol, gui_vars, now, mic_current_time, db_spl, mic_stamp, mic_posts,
                   text_resent>>

\* requests.post(.../sendAudio); the files are removed on status 200 only
send_audio ==
    /\ mic_pc = "send_audio"
    /\ \/ /\ mic_posts' = Append(mic_posts, <<"sendAudio", 200>>)
          /\ mic_disk' = mic_disk \ MicFiles(mic_stamp)
          /\ mic_pc' = "commit"
          /\ UNCHANGED <<noise_state, mic_last_alert_time, transitions, suppressed, scen,
                         attach_failed>>
       \/ /\ mic_posts' = Append(mic_posts, <<"sendAudio", 500>>)
          /\ attach_failed' = Some(mic_current_time)
          /\ mic_pc' = "commit"
          /\ UNCHANGED <<noise_state, mic_last_alert_time, transitions, suppressed, scen,
                         mic_disk>>
       \/ /\ attach_failed' = Some(mic_current_time)
          /\ Continue
          /\ UNCHANGED <<mic_posts, mic_disk>>
    /\ UNCHANGED <<pol, gui_vars, now, mic_current_time, db_spl, mic_stamp, text_resent>>

\* last_alert_time = current_time; noise_state = NOISE_HIGH
commit_high ==
    /\ mic_pc = "commit"
    /\ mic_last_alert_time' = mic_current_time
    /\ noise_state' = NOISE_HIGH
    /\ transitions' = Append(transitions,
                             [ev |-> "high", t |-> mic_current_time, retry |-> suppressed])
    /\ suppressed' = FALSE
    /\ scen' = ScenNext(scen, TRUE, TRUE, mic_current_time)
    /\ mic_pc' = "sleep"
    /\ UNCHANGED <<pol, gui_vars, now, mic_current_time, db_spl, mic_stamp, mic_disk, mic_posts,
                   attach_failed, text_resent>>

\* send_telegram_alert(message) of the recovery notice, then noise_state = NOISE_NORMAL.
\* A raise of requests.post is caught nowhere in the loop.
send_recovery ==
    /\ mic_pc = "send_recovery"
    /\ \/ \E status \in {200, 500} :
             /\ mic_posts' = Append(mic_posts, <<"sendMessage", status>>)
             /\ noise_state' = NOISE_NORMAL
             /\ transitions' = Append(transitions,
                                      [ev |-> "normal", t |-> mic_current_time,
                                       retry |-> FALSE])
             /\ scen' = ScenOff
             /\ mic_pc' = "sleep"
       \/ /\ mic_pc' = "crashed"
          /\ UNCHANGED <<mic_posts, noise_state, transitions, scen>>
    /\ UNCHANGED <<pol, gui_vars, now, mic_last_alert_time, mic_current_time, db_spl, mic_stamp,
                   mic_disk, suppressed, attach_failed, text_resent>>

\* time.sleep(1)
sleep ==
    /\ mic_pc = "sleep"
    /\ mic_pc' = "listen"
    /\ UNCHANGED <<pol, gui_vars, now, noise_state, mic_last_alert_time, mic_current_time,
                   db_spl, mic_stamp, mic_disk, mic_posts, transitions, suppressed, scen,
                   attach_failed, text_resent>>

\* except KeyboardInterrupt: break
keyboard_interrupt ==
    /\ mic_pc \notin {"off", "crashed", "stopped"}
    /\ mic_pc' = "stopped"
    /\ UNCHANGED <<pol, gui_vars, now, noise_state, mic_last_alert_time, mic_current_time,
                   db_spl, mic_stamp, mic_disk, mic_posts, transitions, suppressed, scen,
                   attach_failed, text_resent>>

MicTick ==
    /\ \E d \in ClockSteps : now + d <= MaxTime /\ now' = now + d
    /\ UNCHANGED <<pol, gui_vars, cli_vars>>

MicNext ==
    \/ listen
    \/ record_clip
    \/ send_text
    \/ transcode
    \/ send_audio
    \/ commit_high
    \/ send_recovery
    \/ sleep
    \/ keyboard_interrupt
    \/ MicTick

\* The GUI is not running.
GuiIdle ==
    /\ settings = [threshold |-> DEFAULT_THRESHOLD, filter_micro_lags |-> TRUE,
                   spike_duration_ms |-> DEFAULT_SPIKE_DURATION, telegram_token |-> "",
                   telegram_chat_id |-> "", audio_device |-> ""]
    /\ is_monitoring = FALSE
    /\ last_alert_time = 0
    /\ recording_thread = None
    /\ device_id = None
    /\ status_label = ""
    /\ threads = [s \in Slots |-> DeadThread]
    /\ disk = {}
    /\ alert_log = <<>>
    /\ posts = <<>>
    /\ last_tick = [enabled |-> FALSE, phase |-> "none", started |-> FALSE]

SpecCLIInit == now = EpochStart /\ CliInit /\ GuiIdle /\ pol = PolIdle

SpecCLI == SpecCLIInit /\ [][MicNext]_vars


\* ================================== the alert decision of record_audio alone
\* Blocks of PolicyChunks sub-chunk levels (dBFS; NegInf is a chunk with rms = 0),
\* and the two ten-chunk blocks [20,35,36,34,35,33,20,20,20,20] and
\* [20,35,36,34,20,20,20,20,20,20] dB SPL.
BlockSustained == <<-70, -55, -54, -56, -55, -57, -70, -70, -70, -70>>
BlockShort == <<-70, -55, -54, -56, -70, -70, -70, -70, -70, -70>>
PolicyBlocks == [1..PolicyChunks -> GuiChunkInputs] \cup {BlockSustained, BlockShort}

\* Values of spike_duration_ms the settings can hold (the spin box takes
\* 100..2000) and of the threshold.
PolicySpikes == {100, 150, 200, 300, 500}
PolicyThresholds == {30, 40}

PolicyInit ==
    pol \in {[PolIdle EXCEPT !.pc = "in", !.block = b, !.threshold = t, !.filter = f,
                             !.spike = d] :
                b \in PolicyBlocks, t \in PolicyThresholds, f \in BOOLEAN,
                d \in PolicySpikes}

\* The loop over the chunks, 'if db_levels:' and the aggregates: of an empty
\* list np.mean is NaN and np.max raises ValueError.
pol_levels ==
    /\ pol.pc = "in"
    /\ LET lv == DbLevels(pol.block)
       IN  pol' = IF ~HasLevels(lv) THEN [pol EXCEPT !.db_levels = lv, !.pc = "out"]
                  ELSE IF lv = <<>>
                       THEN [pol EXCEPT !.db_levels = lv, !.nan = TRUE, !.pc = "raised"]
                       ELSE [pol EXCEPT !.db_levels = lv, !.pc = "decide"]
    /\ UNCHANGED <<now, gui_vars, cli_vars>>

\* should_alert, with or without the filter.
pol_decide ==
    /\ pol.pc = "decide"
    /\ pol' = IF pol.filter
              THEN [pol EXCEPT !.pc = "out",
                               !.required = RequiredChunks(pol.spike),
                               !.should_alert =
                                   ShouldAlertFiltered(pol.db_levels, pol.threshold,
                                                       pol.spike)]
              ELSE [pol EXCEPT !.pc = "out",
                               !.should_alert =
                                   ShouldAlertImmediate(pol.db_levels, pol.threshold)]
    /\ UNCHANGED <<now, gui_vars, cli_vars>>

PolicyNext ==
    \/ pol_levels
    \/ pol_decide

SpecPolicyInit == now = EpochStart /\ GuiIdle /\ CliIdle /\ PolicyInit

SpecPolicy == SpecPolicyInit /\ [][PolicyNext]_vars

\* ================================================================== claims

\* ---- C1 (SpecGUI).  Alerts of the GUI monitor, taken at their cycle time
\* (current_time of the cycle that calls send_alert): any two are at least
\* ALERT_COOLDOWN apart; a triggering block (should_alert) inside the cooldown of
\* the last alert calls send_alert not at all, and a triggering block at least
\* ALERT_COOLDOWN after the last alert (or with no alert so far) calls it once.
C1_Spacing ==
    \A i, j \in DOMAIN alert_log :
        i < j => alert_log[j] - alert_log[i] >= ALERT_COOLDOWN

C1_CheckStep ==
    \A s \in Slots :
        (threads[s].pc = "check" /\ threads'[s].pc # "check" /\ threads[s].should_alert)
        => IF \/ alert_log = <<>>
              \/ threads[s].current_time - alert_log[Len(alert_log)] >= ALERT_COOLDOWN
           THEN alert_log' = Append(alert_log, threads[s].current_time)
           ELSE alert_log' = alert_log

C1_OneAlertPerCooldown == []C1_Spacing /\ [][C1_CheckStep]_vars

\* Two alerts have been sent and a further triggering block, inside the cooldown
\* of the second, is about to be checked.
C1_Witness ==
    /\ Len(alert_log) = 2
    /\ \E s \in Slots :
          /\ threads[s].pc = "check"
          /\ threads[s].should_alert
          /\ threads[s].current_time - alert_log[2] < ALERT_COOLDOWN

\* ---- C2 (SpecCLI), as stated: of three consecutive loud blocks, the first
\* alerting, the second inside the cooldown and the third after alert_interval
\* has elapsed since the first alert, the first and the third each produce an
\* alert: two alerts.
C2_Original == scen.n = 3 => scen.alerts = 2

\* ---- C2 (SpecCLI), amended: in that scenario exactly one alert is produced, by
\* the first block; the second and the third block find noise_state HIGH and
\* trigger nothing.
C2_OneAlertWhileHigh ==
    scen.n \in {2, 3} => scen.alerts = 1 /\ noise_state = NOISE_HIGH

\* The third loud block, after the interval has elapsed, has been processed.
C2_Witness == scen.n = 3 /\ mic_pc = "sleep"

\* ---- C3 (SpecCLI).  Any two Normal->High transitions are at least
\* alert_interval apart, whatever happens between them.
C3_TransitionSpacing ==
    \A i, j \in DOMAIN transitions :
        (i < j /\ transitions[i].ev = "high" /\ transitions[j].ev = "high")
        => transitions[j].t - transitions[i].t >= alert_interval

\* Alert, recovery, a loud block suppressed by the cooldown, and a second alert.
C3_Witness ==
    \E i, k, j \in DOMAIN transitions :
        /\ i < k /\ k < j
        /\ transitions[i].ev = "high"
        /\ transitions[k].ev = "normal"
        /\ transitions[j].ev = "high"
        /\ transitions[j].retry

\* ---- C4 (SpecCLI), as stated: whenever send_telegram_alert is under way for an
\* alert (text, transcoding, attachment), noise_state = HIGH and
\* last_alert_time = current_time have already been committed.
C4_CommittedBeforeDispatch ==
    mic_pc \in MicDispatchPcs
    => noise_state = NOISE_HIGH /\ mic_last_alert_time = mic_current_time

\* ---- C5 (SpecCLI), as stated: after the attachment step of an alert has failed,
\* no alert text is sent again within alert_interval of that alert's cycle.
C5_NoTextResend == ~text_resent

\* ---- C6 (SpecCLI), as stated: the monitoring loop is never ended by a failing
\* block read or a failing dispatch call (only by KeyboardInterrupt).
C6_LoopSurvives == mic_pc # "crashed"

\* ---- C7 (SpecGUI).  A cycle whose block read raises sets the status to the
\* error, changes neither last_alert_time nor is_monitoring, sends nothing, and
\* the next tick with monitoring on and a device selected starts a new cycle.
C7_FailStep ==
    \A s \in Slots :
        (threads[s].pc = "rec" /\ threads'[s].pc = "dead"
            /\ threads'[s].outcome = "rec_error")
        => /\ status_label' = "Error"
           /\ last_alert_time' = last_alert_time
           /\ is_monitoring' = is_monitoring
           /\ alert_log' = alert_log
           /\ posts' = posts
           /\ disk' = disk

C7_NextTickStarts ==
    (last_tick.enabled /\ last_tick.phase = "failed") => last_tick.started

C7_FailedCycleAbandoned == []C7_NextTickStarts /\ [][C7_FailStep]_vars

\* A tick that followed a failed cycle has started a new worker.
C7_Witness ==
    /\ last_tick.phase = "failed"
    /\ last_tick.started
    /\ recording_thread # None
    /\ threads[recording_thread[1]].pc = "rec"

C9_SingleWorker ==
    /\ Cardinality({s \in Slots : threads[s].pc # "dead"}) <= 1
    /\ last_tick.phase \in {"measuring", "dispatching"} => ~last_tick.started

\* A tick fired with monitoring on while the worker was alive, and started nothing.
C9_Witness ==
    /\ last_tick.enabled
    /\ last_tick.phase \in {"measuring", "dispatching"}
    /\ ~last_tick.started
    /\ Cardinality({s \in Slots : threads[s].pc # "dead"}) = 1

\* ---- C10 (SpecGUI), as stated: a tick that fires (monitoring on, device
\* selected) while the dispatch of an alert is running starts a measurement.
C10_TickMeasuresDuringDispatch ==
    (last_tick.enabled /\ last_tick.phase = "dispatching") => last_tick.started

\* ---- C11 (SpecGUI), as stated: once an alert has been sent (dispatched and
\* last_alert_time set, credentials configured), a cycle whose block has every
\* level at or below the threshold does not end without a notification being
\* posted (the 'returned to normal' notice).
C11_QuietCycleEnds(s) ==
    /\ threads[s].pc = "check"
    /\ threads'[s].pc = "dead"
    /\ alert_log # <<>>
    /\ last_alert_time = alert_log[Len(alert_log)]
    /\ settings.telegram_token # "" /\ settings.telegram_chat_id # ""
    /\ SeqMax(threads[s].db_levels) <= threads[s].threshold

C11_RecoveryNotice == [][\A s \in Slots : C11_QuietCycleEnds(s) => posts' # <<>>]_vars

\* ---- C12 (SpecCLI), as stated: in state High, the cycle of a block at or below
\* the threshold (the loop is at the recovery branch) ends with the state Normal
\* and exactly one recovery notice posted in that cycle, whether or not
\* alert_interval has elapsed since the alert.
C12_RecoveryCompletes ==
    [][(mic_pc = "send_recovery" /\ mic_pc' \notin {"send_recovery", "stopped"})
         => /\ noise_state' = NOISE_NORMAL
            /\ Len(mic_posts') = 1
            /\ mic_posts'[1][1] = "sendMessage"]_vars

\* ---- C13 (SpecCLI): the recovery notice is sent only from state High and at
\* most once per High->Normal transition (every "normal" transition directly
\* follows a "high" one, and its cycle posts one sendMessage); while the state
\* is High, a block above the threshold leaves the state High and sends neither
\* an alert nor a recovery notice.
C13_RecoveryOnlyFromHigh ==
    /\ mic_pc = "send_recovery" => noise_state = NOISE_HIGH /\ mic_posts = <<>>
    /\ \A i \in 1..Len(transitions) :
          transitions[i].ev = "normal" => i > 1 /\ transitions[i - 1].ev = "high"

C13_LoudBlockInHigh ==
    /\ mic_pc = "listen"
    /\ mic_pc' \notin {"listen", "crashed", "stopped"}
    /\ noise_state = NOISE_HIGH
    /\ db_spl' > threshold_db

C13_HighStaysHigh ==
    C13_LoudBlockInHigh =>
        /\ mic_pc' = "sleep"
        /\ mic_posts' = <<>>
        /\ UNCHANGED <<noise_state, mic_last_alert_time, transitions, mic_disk>>

C13_RecoveryOncePerTransition ==
    /\ []C13_RecoveryOnlyFromHigh
    /\ [][C13_HighStaysHigh]_vars
    /\ [][(mic_pc = "send_recovery" /\ noise_state' = NOISE_NORMAL)
            => Len(mic_posts') = 1 /\ mic_pc' = "sleep"]_vars

\* A second alert after a recovery, then one more loud block that stays High.
C13_Witness ==
    /\ Len(transitions) = 3
    /\ transitions[2].ev = "normal"
    /\ noise_state = NOISE_HIGH
    /\ scen.n = 2
    /\ mic_pc = "sleep"
    /\ mic_posts = <<>>

\* ---- C14 (SpecCLI): in state Normal, a block above the threshold that arrives
\* before alert_interval has elapsed since the last alert is a no-op like any
\* other: the state stays Normal, last_alert_time is unchanged, no clip is
\* recorded or written and no message is sent; the loop goes to its sleep.
C14_LoudBlockInCooldown ==
    /\ mic_pc = "listen"
    /\ mic_pc' \notin {"listen", "crashed", "stopped"}
    /\ noise_state = NOISE_NORMAL
    /\ db_spl' > threshold_db
    /\ (mic_current_time' - mic_last_alert_time) < alert_interval

C14_CooldownNoOp ==
    [][C14_LoudBlockInCooldown =>
          /\ mic_pc' = "sleep"
          /\ mic_posts' = <<>>
          /\ UNCHANGED <<noise_state, mic_last_alert_time, mic_disk, mic_stamp,
                         transitions>>]_vars

\* Normal again after an alert, and a loud block inside the cooldown of it.
C14_Witness ==
    /\ suppressed
    /\ mic_pc = "sleep"
    /\ noise_state = NOISE_NORMAL
    /\ db_spl > threshold_db
    /\ (mic_current_time - mic_last_alert_time) < alert_interval
    /\ mic_last_alert_time > 0
    /\ mic_posts = <<>>

\* ---- C18 (SpecGUI), as stated: the settings are a snapshot per cycle: once the
\* text of an alert has been built, the threshold it reports is the threshold
\* that decided the alert, even when the settings were saved in between.
C18_ReportedThresholdIsDeciding ==
    \A s \in Slots :
        threads[s].pc \in {"post_audio", "remove"}
            => threads[s].msg_threshold = threads[s].threshold

\* ---- C19 (SpecCLI): in every cycle the attachment call (sendAudio) is issued
\* only after the text call (sendMessage) of the same dispatch, only in the cycle
\* of an alert (a block above the threshold), and at most once; when the loop is
\* about to transcode or attach, the text call has been issued; the cycle of a
\* recovery notice issues the text call only.
C19_TextBeforeAttachment ==
    /\ Len(mic_posts) <= 2
    /\ \A i \in 1..Len(mic_posts) :
          mic_posts[i][1] = "sendAudio"
             => /\ i = 2
                /\ mic_posts[1][1] = "sendMessage"
                /\ db_spl > threshold_db
    /\ mic_pc \in {"transcode", "send_audio"}
          => Len(mic_posts) = 1 /\ mic_posts[1][1] = "sendMessage"
    /\ (mic_pc = "send_recovery" \/ db_spl <= threshold_db)
          => \A i \in 1..Len(mic_posts) : mic_posts[i][1] = "sendMessage"

\* The same order in the GUI's send_alert (SpecGUI): sendAudio only as the second
\* call of a dispatch, after its sendMessage.
C19_GuiTextBeforeAttachment ==
    /\ Len(posts) <= 2
    /\ \A i \in 1..Len(posts) :
          posts[i] = "sendAudio" => i = 2 /\ posts[1] = "sendMessage"

\* A recovery notice was sent earlier, and a later alert has made both calls.
C19_Witness ==
    /\ Len(transitions) >= 2
    /\ transitions[2].ev = "normal"
    /\ Len(mic_posts) = 2
    /\ mic_posts[1][1] = "sendMessage"
    /\ mic_posts[2][1] = "sendAudio"

\* Sub-chunks of the block under decision whose level is above the threshold.
AboveThreshold ==
    {i \in DOMAIN pol.block :
        pol.block[i] # NegInf /\ pol.block[i] + SPL_OFFSET > pol.threshold}

\* The block has n consecutive sub-chunks above the threshold.
HasRun(n) ==
    \E i \in DOMAIN pol.block :
        i + n - 1 <= Len(pol.block) /\ \A j \in i..(i + n - 1) : j \in AboveThreshold

\* Number of runs of consecutive sub-chunks above the threshold.
NumRuns == Cardinality({i \in AboveThreshold : (i - 1) \notin AboveThreshold})

CeilDiv(a, b) == (a + b - 1) \div b

\* ---- C15 (SpecPolicy), as stated: the required chunk count record_audio uses
\* with the filter enabled is ceil(spike_duration_ms / 100) and at least 1.
C15_RequiredIsCeil ==
    (pol.pc = "out" /\ pol.filter /\ pol.db_levels # <<>>)
        => pol.required = CeilDiv(pol.spike, CHUNK_MS) /\ pol.required >= 1

\* ---- C16 (SpecPolicy): without the filter a block is an event iff some
\* sub-chunk (so the maximum) is strictly above the threshold; with the filter
\* iff the number of sub-chunks strictly above the threshold is at least the
\* required chunk count: with 3 required, 2 such chunks give false and 3 give
\* true; threshold 30 and 5 required, [20,35,36,34,35,33,20,20,20,20] gives true
\* and [20,35,36,34,20,20,20,20,20,20] gives false.
C16_Decision ==
    pol.pc = "out" =>
        /\ ~pol.filter => (pol.should_alert <=> AboveThreshold # {})
        /\ (pol.filter /\ pol.db_levels # <<>>)
              => (pol.should_alert <=> Cardinality(AboveThreshold) >= pol.required)
        /\ (pol.filter /\ pol.required = 3 /\ Cardinality(AboveThreshold) = 2)
              => ~pol.should_alert
        /\ (pol.filter /\ pol.required = 3 /\ Cardinality(AboveThreshold) = 3)
              => pol.should_alert
        /\ (pol.filter /\ pol.threshold = 30 /\ pol.spike = 500 /\ pol.db_levels # <<>>)
              => /\ pol.required = 5
                 /\ pol.block = BlockSustained => pol.should_alert
                 /\ pol.block = BlockShort => ~pol.should_alert

\* The block with exactly the five required chunks above the threshold is an event.
C16_Witness ==
    /\ pol.pc = "out"
    /\ pol.filter /\ pol.threshold = 30 /\ pol.spike = 500
    /\ pol.block = BlockSustained
    /\ pol.should_alert

\* ---- C17 (SpecPolicy), as stated: with the filter enabled and a minimum spike
\* duration of more than one sub-chunk (a whole number of sub-chunks), a block in
\* which every run of consecutive sub-chunks above the threshold is shorter than
\* that duration is not an event, however many runs it has.
C17_IsolatedRunsRejected ==
    (/\ pol.pc = "out"
     /\ pol.filter
     /\ pol.spike > CHUNK_MS /\ pol.spike % CHUNK_MS = 0
     /\ ~HasRun(pol.spike \div CHUNK_MS))
        => ~pol.should_alert

\* ---- C17 (SpecPolicy), amended: with the filter enabled and more than one
\* chunk required, a block with no run of the required length is an event
\* exactly when its runs together hold at least the required number of
\* sub-chunks above the threshold; with a single such run it is rejected.
C17_IsolatedRunsCountTogether ==
    (/\ pol.pc = "out"
     /\ pol.filter
     /\ pol.required > 1
     /\ ~HasRun(pol.required))
        => /\ pol.should_alert <=> Cardinality(AboveThreshold) >= pol.required
           /\ NumRuns <= 1 => ~pol.should_alert

\* Two isolated chunks above the threshold, two chunks required: an event.
C17_Witness ==
    /\ pol.pc = "out"
    /\ pol.filter
    /\ pol.required = 2
    /\ ~HasRun(pol.required)
    /\ NumRuns = 2
    /\ pol.should_alert

\* ---- C20 (SpecPolicy): a block whose sub-chunks all have rms 0 is processed
\* without a raise and without a NaN aggregate (no level is kept and none is
\* computed) and is never an event.
C20_AllSilent == \A i \in DOMAIN pol.block : pol.block[i] = NegInf

C20_SilentBlockNoEvent ==
    (pol.pc \notin {"off", "in"} /\ C20_AllSilent)
        => /\ pol.pc = "out"
           /\ pol.db_levels = <<>>
           /\ ~pol.nan
           /\ ~pol.should_alert

C20_Witness == pol.pc = "out" /\ C20_AllSilent

\* The same block in the GUI worker (SpecGUI): a worker that ends right after the
\* recording has sent nothing, and last_alert_time and the status are untouched.
C20_GuiSilentBlock ==
    [][\A s \in Slots :
          (threads[s].pc = "rec" /\ threads'[s].pc = "dead"
             /\ threads'[s].outcome = "done")
            => UNCHANGED <<last_alert_time, alert_log, posts, disk, status_label>>]_vars

\* The same block in the CLI loop (SpecCLI): the level is minus infinity, the
\* alert branch is not taken and the loop goes on.
C20_CliSilentBlock ==
    [][(mic_pc = "listen" /\ mic_pc' \notin {"listen", "crashed", "stopped"}
          /\ db_spl' = NegInf)
         => /\ DbSpl(NegInf) = NegInf
            /\ mic_pc' \in {"sleep", "send_recovery"}
            /\ mic_posts' = <<>>
            /\ UNCHANGED <<mic_last_alert_time, mic_disk, transitions>>]_vars

\* ---- C21 (SpecGUI), as stated: when no input device can be resolved
\* (device_id is None after setup_audio) while monitoring is on, the status does
\* not go on reading "Monitoring...": the stop is made explicit.
C21_NoDeviceIsExplicit ==
    (is_monitoring /\ device_id = None) => status_label # "Monitoring..."

\* ---- C22 (SpecGUI): a cycle that has decided to alert with the cooldown elapsed
\* (it is inside send_alert) leaves send_alert only through the assignment of
\* last_alert_time, which gets the cycle's time whatever send_alert did
\* (delivered, nothing sent for want of token or chat id, or an error caught
\* inside); so, outside a dispatch, last_alert_time is the time of the last
\* cycle that called send_alert, and a later triggering cycle inside
\* ALERT_COOLDOWN of it calls send_alert not at all.
C22_LeavesDispatch(s) ==
    threads[s].pc \in DispatchPcs /\ threads'[s].pc \notin DispatchPcs

C22_CommitStep ==
    \A s \in Slots :
        C22_LeavesDispatch(s) => /\ threads[s].pc = "commit"
                                 /\ last_alert_time' = threads[s].current_time
                                 /\ last_alert_time' = alert_log[Len(alert_log)]

C22_SuppressStep ==
    \A s \in Slots :
        (/\ threads[s].pc = "check" /\ threads'[s].pc # "check"
         /\ alert_log # <<>>
         /\ threads[s].current_time - alert_log[Len(alert_log)] < ALERT_COOLDOWN)
            => threads'[s].pc = "dead" /\ UNCHANGED <<alert_log, last_alert_time, posts>>

C22_Committed ==
    (alert_log # <<>> /\ \A s \in Slots : threads[s].pc \notin DispatchPcs)
        => last_alert_time = alert_log[Len(alert_log)]

C22_SetWhateverOutcome ==
    []C22_Committed /\ [][C22_CommitStep]_vars /\ [][C22_SuppressStep]_vars

\* An alert failed inside send_alert ("Alert Error", its time committed), and a
\* later triggering cycle inside the cooldown of it is about to be checked.
C22_Witness ==
    /\ status_label = "Alert Error"
    /\ alert_log # <<>>
    /\ last_alert_time = alert_log[Len(alert_log)]
    /\ \E s \in Slots :
          /\ threads[s].pc = "check"
          /\ threads[s].should_alert
          /\ threads[s].current_time > last_alert_time
          /\ ~CooldownElapsed(threads[s].current_time, last_alert_time)

\* ---- C23 (SpecGUI): while monitoring is paused no step starts a recording
\* worker (no thread object becomes alive and recording_thread stays as it is);
\* toggle_monitoring changes neither last_alert_time nor any worker; a worker
\* that is alive goes on with its steps while the monitor is paused, up to the
\* sending of an alert.
C23_WorkerStarts ==
    \/ recording_thread' # recording_thread
    \/ \E s \in Slots : threads[s].pc = "dead" /\ threads'[s].pc # "dead"

C23_PausedStartsNothing == (~is_monitoring /\ ~is_monitoring') => ~C23_WorkerStarts

C23_ToggleStep ==
    is_monitoring' # is_monitoring
        => UNCHANGED <<last_alert_time, threads, recording_thread, alert_log, posts>>

\* Paused or not, a worker that is alive has its next step.
C23_WorkerCanStep ==
    (~is_monitoring /\ \E s \in Slots : IsAlive(s)) => ENABLED (record_audio \/ send_alert)

C23_PauseSparesWorker ==
    []C23_WorkerCanStep /\ [][C23_PausedStartsNothing /\ C23_ToggleStep]_vars

\* Paused, a tick has just been refused, and the worker started before the pause
\* has sent both calls of its alert and is about to set last_alert_time.
C23_Witness ==
    /\ ~is_monitoring
    /\ status_label = "Paused"
    /\ last_tick = [enabled |-> FALSE, phase |-> "dispatching", started |-> FALSE]
    /\ posts = <<"sendMessage", "sendAudio">>
    /\ \E s \in Slots : threads[s].pc = "commit" /\ recording_thread = Some(s)

====
